---- MODULE Spec2Model ----
(***************************************************************************)
(* Model of the Hugging Face -> OpenAI chat-completion proxy.              *)
(*                                                                         *)
(* Two entry points exist in the repository, each defining the handler of  *)
(* POST /v1/chat/completions:                                              *)
(*   "proxy"  src/unnamed/part_000  (alias table, validation, streaming)   *)
(*   "basic"  src/server.js         (credential check and plain forward)   *)
(* The process runs one of them; which one is fixed at start-up.           *)
(*                                                                         *)
(* Text is a sequence of one-character strings, so that split(' ') and     *)
(* the concatenation of deltas are computed, not assumed.                  *)
(* Numbers of the sampling parameters are kept in tenths (0.7 is 7).       *)
(* An optional JSON field is a set: {} when the key is absent, {v} when    *)
(* it carries v.                                                           *)
(***************************************************************************)
EXTENDS Integers, Sequences, FiniteSets, TLC

\* ------------------------------------------------------------------ bounds
MaxLen == 3
MaxBytes == 2

\* --------------------------------------------------------------- requests
Reqs == {1, 2}
Solo == {1}

VARIABLES
  server,         \* "proxy" or "basic": the entry point the process runs
  HF_TOKEN,       \* TRUE iff process.env.HF_TOKEN is set
  pc,             \* pc[r]: where request r's handler is
  req,            \* req[r]: the inbound body while the handler reads it
  outbound,       \* outbound[r]: the payload of the fetch, while in flight
  upstreamCalls,  \* upstreamCalls[r]: number of fetch calls made for r
  stream,         \* stream[r]: truthiness of the local `stream`
  selectedModel,  \* selectedModel[r]: the local `selectedModel`
  response,       \* response[r]: status and content type of the upstream reply
  mode,           \* mode[r]: "none", "passthrough" or "simulated"
  answer,         \* answer[r]: the content text taken from the upstream body
  words,          \* words[r]: the local `words`
  idx,            \* idx[r]: the loop variable i of the simulated loop
  src,            \* src[r]: state of the upstream byte source
  srcBytes,       \* srcBytes[r]: bytes the upstream source has delivered
  fault,          \* fault[r]: message of the fault caught by the stream catch
  res             \* res[r]: what has been written to the client connection

vars == <<server, HF_TOKEN, pc, req, outbound, upstreamCalls, stream,
          selectedModel, response, mode, answer, words, idx, src, srcBytes,
          fault, res>>

\* ------------------------------------------------------------ text helpers
Alphabet == {"a", "b", " "}

RECURSIVE SeqsUpTo(_, _)
SeqsUpTo(S, n) ==
  IF n = 0 THEN {<<>>}
  ELSE LET shorter == SeqsUpTo(S, n - 1)
       IN shorter \cup {Append(s, x) : s \in shorter, x \in S}

HelloFriend == <<"H", "e", "l", "l", "o", " ", "f", "r", "i", "e", "n", "d">>

Texts == SeqsUpTo(Alphabet, MaxLen) \cup {HelloFriend}

\* "Sin respuesta"
Placeholder == <<"S", "i", "n", " ", "r", "e", "s", "p", "u", "e", "s", "t", "a">>

\* String.prototype.split(' ')
RECURSIVE Split(_)
Split(s) ==
  IF s = <<>> THEN << <<>> >>
  ELSE LET rest == Split(Tail(s))
       IN IF Head(s) = " "
          THEN << <<>> >> \o rest
          ELSE << (<<Head(s)>> \o Head(rest)) >> \o Tail(rest)

\* ------------------------------------------------------- process constants
DEFAULT_MODEL == "meta-llama/Llama-3.1-8B-Instruct:fireworks-ai"

AVAILABLE_MODELS ==
  [a \in {"llama-3.1-8b", "llama-3.1-70b", "mixtral-8x7b", "qwen-2.5-72b", "hermes-3"} |->
     CASE a = "llama-3.1-8b"  -> "meta-llama/Llama-3.1-8B-Instruct:fireworks-ai"
       [] a = "llama-3.1-70b" -> "meta-llama/Llama-3.1-70B-Instruct:fireworks-ai"
       [] a = "mixtral-8x7b"  -> "mistralai/Mixtral-8x7B-Instruct-v0.1:fireworks-ai"
       [] a = "qwen-2.5-72b"  -> "Qwen/Qwen2.5-72B-Instruct:fireworks-ai"
       [] a = "hermes-3"      -> "NousResearch/Hermes-3-Llama-3.1-8B:fireworks-ai"]

\* --------------------------------------------------------- inbound bodies
\* messages: missing (undefined/null), a truthy non-array, or an array
MessageValues ==
  { [kind |-> "missing", items |-> <<>>],
    [kind |-> "notArray", items |-> <<>>],
    [kind |-> "array", items |-> <<>>],
    [kind |-> "array", items |-> <<"m1">>],
    [kind |-> "array", items |-> <<"m1", "m2">>],
    [kind |-> "array", items |-> <<"m2", "m1">>] }

ParamValues == { {}, {0}, {10} }

ModelValues ==
  { {}, {""}, {"llama-3.1-70b"}, {"hermes-3"}, {"my-org/custom-model"}, {"toString"} }

StreamValues == { {}, {FALSE}, {TRUE} }

Bodies ==
  [ messages : MessageValues, temperature : ParamValues, max_tokens : ParamValues,
    stream : StreamValues, model : ModelValues, top_p : ParamValues,
    frequency_penalty : ParamValues, presence_penalty : ParamValues ]

\* no body held: the messages kind "none" marks it
NoBody ==
  [ messages |-> [kind |-> "none", items |-> <<>>], temperature |-> {},
    max_tokens |-> {}, stream |-> {}, model |-> {}, top_p |-> {},
    frequency_penalty |-> {}, presence_penalty |-> {} ]

NoPayload ==
  [ sent |-> FALSE, model |-> {}, messages |-> [kind |-> "none", items |-> <<>>],
    temperature |-> {}, max_tokens |-> {}, stream |-> {}, top_p |-> {},
    frequency_penalty |-> {}, presence_penalty |-> {} ]

\* JavaScript truthiness of an optional number, string and boolean field
TruthyNum(f) == f # {} /\ f # {0}

TruthyStr(f) == f # {} /\ f # {""}

TruthyBool(f) == f = {TRUE}

\* a || d, for a number
OrElse(f, d) == IF TruthyNum(f) THEN f ELSE {d}

\* stream || false
StreamOrFalse(f) == IF TruthyBool(f) THEN f ELSE {FALSE}

\* ...(p && { p })
SpreadIf(f) == IF TruthyNum(f) THEN f ELSE {}

\* !messages || !Array.isArray(messages) || messages.length === 0
InvalidMessages(m) == m.kind = "missing" \/ m.kind # "array" \/ Len(m.items) = 0

\* AVAILABLE_MODELS is a plain object literal: a lookup of a key it does not
\* own falls through to Object.prototype, whose members are functions
InheritedKeys == {"toString", "constructor", "valueOf", "hasOwnProperty"}

\* stands for a function object (truthy, not a string)
FunctionValue == "[Function]"

\* let selectedModel = DEFAULT_MODEL; if (model) { ... AVAILABLE_MODELS[model] || model }
ResolveModel(model) ==
  IF TruthyStr(model)
  THEN LET m == CHOOSE x \in model : TRUE
       IN IF m \in DOMAIN AVAILABLE_MODELS THEN AVAILABLE_MODELS[m]
          ELSE IF m \in InheritedKeys THEN FunctionValue
          ELSE m
  ELSE DEFAULT_MODEL

\* JSON.stringify of a field: a key whose value is a function is left out
JsonField(v) == IF v = FunctionValue THEN {} ELSE {v}

\* const requestBody = { ... } of the proxy
RequestBody(b) ==
  [ sent |-> TRUE,
    model |-> JsonField(ResolveModel(b.model)),
    messages |-> b.messages,
    temperature |-> OrElse(b.temperature, 7),
    max_tokens |-> OrElse(b.max_tokens, 1000),
    stream |-> StreamOrFalse(b.stream),
    top_p |-> SpreadIf(b.top_p),
    frequency_penalty |-> SpreadIf(b.frequency_penalty),
    presence_penalty |-> SpreadIf(b.presence_penalty) ]

\* the body given to fetch by the basic server
BasicRequestBody(b) ==
  [ sent |-> TRUE,
    model |-> JsonField(DEFAULT_MODEL),
    messages |-> b.messages,
    temperature |-> OrElse(b.temperature, 7),
    max_tokens |-> OrElse(b.max_tokens, 1000),
    stream |-> StreamOrFalse(b.stream),
    top_p |-> {},
    frequency_penalty |-> {},
    presence_penalty |-> {} ]

\* ------------------------------------------------------ client connection
\* kind: "none" until a JSON reply is sent with res.json
NoData == [shape |-> "none", text |-> <<>>]

NoJson == [kind |-> "none", error |-> "", details |-> "", status |-> {}, data |-> NoData]

\* records: what the handler has written with res.write, in order
\* clientGone: the client has closed the connection
\* deadWrites / deadPauses: 1 once a write was made / a pacing suspension was
\*   started after the client had gone
FreshRes ==
  [ status |-> 200, headersSent |-> FALSE, json |-> NoJson, records |-> <<>>,
    ended |-> FALSE, endCalls |-> 0, lateWrites |-> 0,
    clientGone |-> FALSE, deadWrites |-> 0, deadPauses |-> 0 ]

\* res.write(x): after end() nothing reaches the client; a write to a
\* connection the client has closed does not throw
Write(rs, rec) ==
  IF rs.ended
  THEN [rs EXCEPT !.lateWrites = 1]
  ELSE [rs EXCEPT !.records = Append(@, rec), !.headersSent = TRUE,
                  !.deadWrites = IF rs.clientGone THEN 1 ELSE @]

\* await new Promise(resolve => setTimeout(resolve, 80))
Suspend(rs) == [rs EXCEPT !.deadPauses = IF rs.clientGone THEN 1 ELSE @]

\* res.end()
End(rs) ==
  [rs EXCEPT !.ended = TRUE, !.headersSent = TRUE,
             !.endCalls = IF @ < 2 THEN @ + 1 ELSE @]

\* res.status(s).json(body)
SendJson(rs, s, body) ==
  End([rs EXCEPT !.status = s, !.json = body])

ErrorJson(error, details, status) ==
  [kind |-> "error", error |-> error, details |-> details, status |-> status, data |-> NoData]

DataJson(data) ==
  [kind |-> "data", error |-> "", details |-> "", status |-> {}, data |-> data]

\* ------------------------------------------------------- stream records
\* one record written with res.write; seq is the loop index of a simulated
\* chunk and -1 otherwise
DoneRecord ==
  [kind |-> "done", seq |-> -1, model |-> "", hasContent |-> FALSE,
   content |-> <<>>, finish |-> "null"]

\* a Buffer of the upstream byte source, relayed as it is
RawRecord(b) ==
  [kind |-> "raw", seq |-> -1, model |-> "", hasContent |-> TRUE,
   content |-> <<b>>, finish |-> "null"]

\* the chunk as createStreamResponse builds it: the space after the word
SimChunkTrailingSpace(ws, i, model) ==
  LET isLast == i = Len(ws) - 1
  IN [kind |-> "chunk", seq |-> i, model |-> model,
      hasContent |-> ~isLast,
      content |-> IF isLast THEN <<>> ELSE ws[i + 1] \o <<" ">>,
      finish |-> IF isLast THEN "stop" ELSE "null"]

\* selectedModel hoisted out of the handler to module scope: every handler
\* reads the value the latest request stored
SimChunkSharedModel(ws, i, model) ==
  LET isLast == i = Len(ws) - 1
      word == ws[i + 1]
      resolved == {q \in Reqs : selectedModel[q] # ""}
      latest == CHOOSE q \in resolved : \A p \in resolved : p <= q
  IN [kind |-> "chunk", seq |-> i,
      model |-> IF resolved = {} THEN model ELSE selectedModel[latest],
      hasContent |-> ~isLast,
      content |-> IF isLast THEN <<>>
                  ELSE IF i = 0 THEN word ELSE <<" ">> \o word,
      finish |-> IF isLast THEN "stop" ELSE "null"]

\* const chunk = { ... } of the simulated loop, i counted from 0
SimChunk(ws, i, model) ==
  LET isLast == i = Len(ws) - 1
      word == ws[i + 1]
  IN [kind |-> "chunk", seq |-> i, model |-> model,
      hasContent |-> ~isLast,
      content |-> IF isLast THEN <<>>
                  ELSE IF i = 0 THEN word ELSE <<" ">> \o word,
      finish |-> IF isLast THEN "stop" ELSE "null"]

\* const errorChunk = { ... }: delta.content is `Error: ${streamError.message}`
ErrorChunk(msg, model) ==
  [kind |-> "chunk", seq |-> -1, model |-> model, hasContent |-> TRUE,
   content |-> <<"Error: ", msg>>, finish |-> "error"]

\* the fallback without the [DONE] record
StreamCatchNoDone(rs, msg, model) ==
  End(Write(rs, ErrorChunk(msg, model)))

\* the fallback without res.end()
StreamCatchNoEnd(rs, msg, model) ==
  Write(Write(rs, ErrorChunk(msg, model)), DoneRecord)

\* no inner try: the fault reaches the outer catch, which sends a JSON reply
StreamCatchAsOuter(rs, msg, model) ==
  SendJson(rs, 500, ErrorJson("Error en el servidor", msg, {}))

\* catch (streamError) { ... }: error chunk, [DONE], end.  The writes of the
\* fallback itself are taken to succeed: one fault per request.
StreamCatch(rs, msg, model) ==
  End(Write(Write(rs, ErrorChunk(msg, model)), DoneRecord))

\* an outer catch that only closes the response
OuterCatchSilent(rs, msg) == End(rs)

\* outer catch (err): res.status(500).json({error, details: err.message})
OuterCatch(rs, msg) ==
  SendJson(rs, 500, ErrorJson("Error en el servidor", msg, {}))

\* ------------------------------------------------------------ upstream
Statuses == {200, 201, 429, 500}

ContentTypes == {"application/json", "text/event-stream", "text/plain; charset=utf-8", ""}

\* response.ok
Ok(status) == status >= 200 /\ status <= 299

\* contentType.includes('text/plain') || contentType.includes('text/event-stream')
IsLiveStream(ct) == ct \in {"text/event-stream", "text/plain; charset=utf-8"}

\* raw / body: what response.text() / response.json() delivered, once read
NoResponse ==
  [arrived |-> FALSE, status |-> 0, contentType |-> "", rawRead |-> FALSE,
   raw |-> "", body |-> NoData]

\* bodies of a 2xx reply read with response.json():
\*   unparsable    json() rejects
\*   noChoices     data.choices is undefined: data.choices[0] throws
\*   emptyChoices  data.choices is []: content is undefined
\*   number        content is a non-zero number: content.split is not a function
\*   text          content is the string `text`
JsonBodies ==
  {[shape |-> sh, text |-> <<>>] : sh \in {"unparsable", "noChoices", "emptyChoices", "number"}}
  \cup {[shape |-> "text", text |-> t] : t \in Texts}

\* raw bodies of a non-2xx reply read with response.text()
RawBodies == {"", "Too Many Requests"}

\* chunks of the upstream byte source; "[DONE]" is the provider's own
\* terminator frame, which the relay does not interpret
Bytes == {"x", "[DONE]"}

NoFault == ""

\* the fault, if any, of `await response.json()` and of the two lines after it
BodyFault(body) ==
  CASE body.shape = "unparsable" -> "invalid json response body"
    [] body.shape = "noChoices"  -> "Cannot read properties of undefined (reading '0')"
    [] body.shape = "number"     -> "content.split is not a function"
    [] OTHER -> NoFault

\* data.choices[0]?.message?.content || "Sin respuesta"
ContentOf(body) ==
  IF body.shape = "text" /\ body.text # <<>> THEN body.text ELSE Placeholder

WriteFailed == "write failed"

\* where a write of one loop iteration may throw: the chunk write, or (last
\* iteration only) the write of the [DONE] record
WriteFaults(ws, i) ==
  IF i = Len(ws) - 1 THEN {"none", "chunk", "done"} ELSE {"none", "chunk"}

\* the loop with the last iteration leaving the response open
IterateNoEnd(rs, ws, i, model, wf) ==
  LET isLast == i = Len(ws) - 1
      written == Write(rs, SimChunk(ws, i, model))
  IN IF wf = "chunk"
     THEN [res |-> StreamCatch(rs, WriteFailed, model), pc |-> "done", fault |-> WriteFailed]
     ELSE IF ~isLast
     THEN [res |-> Suspend(written), pc |-> "paused", fault |-> NoFault]
     ELSE IF wf = "done"
     THEN [res |-> StreamCatch(written, WriteFailed, model), pc |-> "done", fault |-> WriteFailed]
     ELSE [res |-> Write(written, DoneRecord), pc |-> "done", fault |-> NoFault]

\* one iteration of for (let i = 0; i < words.length; i++), up to the await of
\* the pacing timer or, on the last word, through [DONE] and res.end()
Iterate(rs, ws, i, model, wf) ==
  LET isLast == i = Len(ws) - 1
      written == Write(rs, SimChunk(ws, i, model))
  IN IF wf = "chunk"
     THEN [res |-> StreamCatch(rs, WriteFailed, model), pc |-> "done", fault |-> WriteFailed]
     ELSE IF ~isLast
     THEN [res |-> Suspend(written), pc |-> "paused", fault |-> NoFault]
     ELSE IF wf = "done"
     THEN [res |-> StreamCatch(written, WriteFailed, model), pc |-> "done", fault |-> WriteFailed]
     ELSE [res |-> End(Write(written, DoneRecord)), pc |-> "done", fault |-> NoFault]

\* --------------------------------------------------------------- handlers
\* the credential check left out
TokenNeverMissing == FALSE

\* if (!HF_TOKEN)
TokenMissing == ~HF_TOKEN

\* a fetch that is tried again
FetchedWithRetry(n) == n + 2

\* one call of fetch(...): the count of upstream calls after it
Fetched(n) == n + 1

\* a relay that re-frames what it receives
OnDataReframed(rs, b) == Write(rs, RawRecord("x"))

\* response.body.on('data', (chunk) => { res.write(chunk); })
OnData(rs, b) == Write(rs, RawRecord(b))

\* a source-error handler that writes a terminator before closing
OnErrorTerminated(rs) == End(Write(rs, DoneRecord))

\* response.body.on('end', () => { res.end(); })
OnEnd(rs) == End(rs)

\* response.body.on('error', (error) => { logger.error(...); res.end(); })
OnError(rs) == End(rs)

Unauthorized(rs, details) ==
  SendJson(rs, 401, ErrorJson("Token de Hugging Face no encontrado", details, {}))

InvalidRequest(rs) ==
  SendJson(rs, 400, ErrorJson("Mensajes requeridos",
                              "El campo 'messages' debe ser un array no vacío", {}))

\* an upstream failure translated to a gateway error
UpstreamFailureTranslated(rs, status, raw) ==
  SendJson(rs, 502, ErrorJson("Error desde Hugging Face", raw, {status}))

\* res.status(response.status).json({error, details: error, status})
UpstreamFailure(rs, status, raw) ==
  SendJson(rs, status, ErrorJson("Error desde Hugging Face", raw, {status}))

\* res.json(data): the status is left at the default
ForwardJson(rs, data) == End([rs EXCEPT !.json = DataJson(data)])

TypeOK ==
  /\ server \in {"proxy", "basic"}
  /\ HF_TOKEN \in BOOLEAN
  /\ pc \in [Reqs -> {"idle", "fetching", "awaiting", "readText", "readJson",
                      "relaying", "paused", "done"}]
  /\ upstreamCalls \in [Reqs -> Nat]
  /\ stream \in [Reqs -> BOOLEAN]
  /\ mode \in [Reqs -> {"none", "passthrough", "simulated"}]
  /\ src \in [Reqs -> {"none", "open", "ended", "errored"}]

Init ==
  /\ server \in {"proxy", "basic"}
  /\ HF_TOKEN \in BOOLEAN
  /\ pc = [r \in Reqs |-> "idle"]
  /\ req = [r \in Reqs |-> NoBody]
  /\ outbound = [r \in Reqs |-> NoPayload]
  /\ upstreamCalls = [r \in Reqs |-> 0]
  /\ stream = [r \in Reqs |-> FALSE]
  /\ selectedModel = [r \in Reqs |-> ""]
  /\ response = [r \in Reqs |-> NoResponse]
  /\ mode = [r \in Reqs |-> "none"]
  /\ answer = [r \in Reqs |-> <<>>]
  /\ words = [r \in Reqs |-> <<>>]
  /\ idx = [r \in Reqs |-> 0]
  /\ src = [r \in Reqs |-> "none"]
  /\ srcBytes = [r \in Reqs |-> <<>>]
  /\ fault = [r \in Reqs |-> NoFault]
  /\ res = [r \in Reqs |-> FreshRes]

\* app.post("/v1/chat/completions") of the proxy, from the destructuring of
\* req.body to the call of fetch
ProxyReceiveFrom(r, bodies) ==
  /\ server = "proxy"
  /\ pc[r] = "idle"
  /\ \E b \in bodies :
       /\ req' = [req EXCEPT ![r] = b]
       /\ stream' = [stream EXCEPT ![r] = TruthyBool(b.stream)]
       /\ IF TokenMissing
          THEN /\ res' = [res EXCEPT ![r] = Unauthorized(@, "Configura HF_TOKEN en tu .env")]
               /\ pc' = [pc EXCEPT ![r] = "done"]
               /\ UNCHANGED <<outbound, upstreamCalls, selectedModel>>
          ELSE IF InvalidMessages(b.messages)
          THEN /\ res' = [res EXCEPT ![r] = InvalidRequest(@)]
               /\ pc' = [pc EXCEPT ![r] = "done"]
               /\ UNCHANGED <<outbound, upstreamCalls, selectedModel>>
          ELSE /\ selectedModel' = [selectedModel EXCEPT ![r] = ResolveModel(b.model)]
               /\ outbound' = [outbound EXCEPT ![r] = RequestBody(b)]
               /\ upstreamCalls' = [upstreamCalls EXCEPT ![r] = Fetched(@)]
               /\ pc' = [pc EXCEPT ![r] = "fetching"]
               /\ UNCHANGED res
  /\ UNCHANGED <<server, HF_TOKEN, response, mode, answer, words, idx, src, srcBytes, fault>>

ProxyReceive(r) == ProxyReceiveFrom(r, Bodies)

\* app.post("/v1/chat/completions") of the basic server, up to the call of fetch
BasicReceive(r) ==
  /\ server = "basic"
  /\ pc[r] = "idle"
  /\ \E b \in Bodies :
       /\ req' = [req EXCEPT ![r] = b]
       /\ stream' = [stream EXCEPT ![r] = TruthyBool(b.stream)]
       /\ IF TokenMissing
          THEN /\ res' = [res EXCEPT ![r] =
                     Unauthorized(@, "Asegúrate de que HF_TOKEN esté configurado en tu .env")]
               /\ pc' = [pc EXCEPT ![r] = "done"]
               /\ UNCHANGED <<outbound, upstreamCalls, selectedModel>>
          ELSE /\ selectedModel' = [selectedModel EXCEPT ![r] = DEFAULT_MODEL]
               /\ outbound' = [outbound EXCEPT ![r] = BasicRequestBody(b)]
               /\ upstreamCalls' = [upstreamCalls EXCEPT ![r] = Fetched(@)]
               /\ pc' = [pc EXCEPT ![r] = "fetching"]
               /\ UNCHANGED res
  /\ UNCHANGED <<server, HF_TOKEN, response, mode, answer, words, idx, src, srcBytes, fault>>

\* the provider reads the request off the wire; the handler does not read
\* req.body again (stream and selectedModel keep what it still uses)
UpstreamTake(r) ==
  /\ pc[r] = "fetching"
  /\ pc' = [pc EXCEPT ![r] = "awaiting"]
  /\ outbound' = [outbound EXCEPT ![r] = NoPayload]
  /\ req' = [req EXCEPT ![r] = NoBody]
  /\ UNCHANGED <<server, HF_TOKEN, upstreamCalls, stream, selectedModel, response,
                 mode, answer, words, idx, src, srcBytes, fault, res>>

\* await fetch(...) rejects (network fault): outer catch
FetchThrow(r) ==
  /\ pc[r] \in {"fetching", "awaiting"}
  /\ res' = [res EXCEPT ![r] = OuterCatch(@, "fetch failed")]
  /\ pc' = [pc EXCEPT ![r] = "done"]
  /\ UNCHANGED <<server, HF_TOKEN, req, outbound, upstreamCalls, stream, selectedModel,
                 response, mode, answer, words, idx, src, srcBytes, fault>>

\* await fetch(...) resolves: if (!response.ok) ...; if (stream) { content type ... }
FetchRespondFrom(r, statuses, contentTypes) ==
  /\ pc[r] = "awaiting"
  /\ \E st \in statuses, ct \in contentTypes :
       /\ response' = [response EXCEPT ![r] =
                         [NoResponse EXCEPT !.arrived = TRUE, !.status = st,
                                            !.contentType = ct]]
       /\ IF ~Ok(st)
          THEN /\ pc' = [pc EXCEPT ![r] = "readText"]
               /\ UNCHANGED <<mode, src>>
          ELSE IF server = "proxy" /\ stream[r]
          THEN IF IsLiveStream(ct)
               THEN /\ mode' = [mode EXCEPT ![r] = "passthrough"]
                    /\ src' = [src EXCEPT ![r] = "open"]
                    /\ pc' = [pc EXCEPT ![r] = "relaying"]
               ELSE /\ mode' = [mode EXCEPT ![r] = "simulated"]
                    /\ pc' = [pc EXCEPT ![r] = "readJson"]
                    /\ UNCHANGED src
          ELSE /\ pc' = [pc EXCEPT ![r] = "readJson"]
               /\ UNCHANGED <<mode, src>>
  /\ UNCHANGED <<server, HF_TOKEN, req, outbound, upstreamCalls, stream, selectedModel,
                 answer, words, idx, srcBytes, fault, res>>

FetchRespond(r) == FetchRespondFrom(r, Statuses, ContentTypes)

\* const error = await response.text(); return res.status(...).json(...)
ReadText(r) ==
  /\ pc[r] = "readText"
  /\ \E raw \in RawBodies, readFails \in BOOLEAN :
       IF readFails
       THEN /\ res' = [res EXCEPT ![r] = OuterCatch(@, "body read failed")]
            /\ UNCHANGED response
       ELSE /\ res' = [res EXCEPT ![r] = UpstreamFailure(@, response[r].status, raw)]
            /\ response' = [response EXCEPT ![r].rawRead = TRUE, ![r].raw = raw]
  /\ pc' = [pc EXCEPT ![r] = "done"]
  /\ UNCHANGED <<server, HF_TOKEN, req, outbound, upstreamCalls, stream, selectedModel,
                 mode, answer, words, idx, src, srcBytes, fault>>

\* non-streaming branch: const data = await response.json(); res.json(data)
ReadJsonPlain(r) ==
  /\ pc[r] = "readJson"
  /\ mode[r] = "none"
  /\ \E body \in JsonBodies :
       /\ response' = [response EXCEPT ![r].body = body]
       /\ res' = [res EXCEPT ![r] =
                    IF body.shape = "unparsable" THEN OuterCatch(@, BodyFault(body))
                    ELSE ForwardJson(@, body)]
  /\ pc' = [pc EXCEPT ![r] = "done"]
  /\ UNCHANGED <<server, HF_TOKEN, req, outbound, upstreamCalls, stream, selectedModel,
                 mode, answer, words, idx, src, srcBytes, fault>>

\* simulated branch: await response.json(), content, split, and the first
\* iteration of the loop
ReadJsonSimulatedFrom(r, bodies) ==
  /\ pc[r] = "readJson"
  /\ mode[r] = "simulated"
  /\ \E body \in bodies :
       IF BodyFault(body) # NoFault
       THEN /\ res' = [res EXCEPT ![r] = StreamCatch(@, BodyFault(body), selectedModel[r])]
            /\ fault' = [fault EXCEPT ![r] = BodyFault(body)]
            /\ pc' = [pc EXCEPT ![r] = "done"]
            /\ UNCHANGED <<answer, words, idx>>
       ELSE LET ws == Split(ContentOf(body))
            IN \E wf \in WriteFaults(ws, 0) :
                 LET it == Iterate(res[r], ws, 0, selectedModel[r], wf)
                 IN /\ answer' = [answer EXCEPT ![r] = ContentOf(body)]
                    /\ words' = [words EXCEPT ![r] = ws]
                    /\ idx' = [idx EXCEPT ![r] = 0]
                    /\ res' = [res EXCEPT ![r] = it.res]
                    /\ fault' = [fault EXCEPT ![r] = it.fault]
                    /\ pc' = [pc EXCEPT ![r] = it.pc]
  /\ UNCHANGED <<server, HF_TOKEN, req, outbound, upstreamCalls, stream, selectedModel,
                 response, mode, src, srcBytes>>

ReadJsonSimulated(r) == ReadJsonSimulatedFrom(r, JsonBodies)

\* the pacing timer fires: setTimeout(resolve, 80), then the next iteration
TimerFire(r) ==
  /\ pc[r] = "paused"
  /\ \E wf \in WriteFaults(words[r], idx[r] + 1) :
       LET it == Iterate(res[r], words[r], idx[r] + 1, selectedModel[r], wf)
       IN /\ idx' = [idx EXCEPT ![r] = idx[r] + 1]
          /\ res' = [res EXCEPT ![r] = it.res]
          /\ fault' = [fault EXCEPT ![r] = it.fault]
          /\ pc' = [pc EXCEPT ![r] = it.pc]
  /\ UNCHANGED <<server, HF_TOKEN, req, outbound, upstreamCalls, stream, selectedModel,
                 response, mode, answer, words, src, srcBytes>>

\* the upstream byte source emits 'data'
SourceData(r) ==
  /\ pc[r] = "relaying"
  /\ src[r] = "open"
  /\ Len(srcBytes[r]) < MaxBytes
  /\ \E b \in Bytes :
       /\ srcBytes' = [srcBytes EXCEPT ![r] = Append(@, b)]
       /\ res' = [res EXCEPT ![r] = OnData(@, b)]
  /\ UNCHANGED <<server, HF_TOKEN, pc, req, outbound, upstreamCalls, stream,
                 selectedModel, response, mode, answer, words, idx, src, fault>>

\* the upstream byte source emits 'end'
SourceEnd(r) ==
  /\ pc[r] = "relaying"
  /\ src[r] = "open"
  /\ src' = [src EXCEPT ![r] = "ended"]
  /\ res' = [res EXCEPT ![r] = OnEnd(@)]
  /\ pc' = [pc EXCEPT ![r] = "done"]
  /\ UNCHANGED <<server, HF_TOKEN, req, outbound, upstreamCalls, stream, selectedModel,
                 response, mode, answer, words, idx, srcBytes, fault>>

\* the upstream byte source emits 'error'; a destroyed stream emits no more
SourceError(r) ==
  /\ pc[r] = "relaying"
  /\ src[r] = "open"
  /\ src' = [src EXCEPT ![r] = "errored"]
  /\ res' = [res EXCEPT ![r] = OnError(@)]
  /\ pc' = [pc EXCEPT ![r] = "done"]
  /\ UNCHANGED <<server, HF_TOKEN, req, outbound, upstreamCalls, stream, selectedModel,
                 response, mode, answer, words, idx, srcBytes, fault>>

\* the client closes the connection in mid-stream; the handler registers no
\* 'close' listener and tests no res.writableEnded / res.destroyed
ClientDisconnect(r) ==
  /\ mode[r] # "none"
  /\ pc[r] \in {"paused", "relaying"}
  /\ ~res[r].clientGone
  /\ res' = [res EXCEPT ![r].clientGone = TRUE]
  /\ UNCHANGED <<server, HF_TOKEN, pc, req, outbound, upstreamCalls, stream,
                 selectedModel, response, mode, answer, words, idx, src, srcBytes, fault>>

Step(r) ==
  \/ ProxyReceive(r)
  \/ BasicReceive(r)
  \/ UpstreamTake(r)
  \/ FetchThrow(r)
  \/ FetchRespond(r)
  \/ ReadText(r)
  \/ ReadJsonPlain(r)
  \/ ReadJsonSimulated(r)
  \/ TimerFire(r)
  \/ SourceData(r)
  \/ SourceEnd(r)
  \/ SourceError(r)
  \/ ClientDisconnect(r)

\* one request at a time
Next == \E r \in Solo : Step(r)

Spec == Init /\ [][Next]_vars

\* a timer that was set fires: the event loop runs every expired setTimeout
TimersFire == \A r \in Solo : WF_vars(TimerFire(r))

SpecLive == Init /\ [][Next]_vars /\ TimersFire

\* two requests in flight at once on the proxy: streaming requests with valid
\* messages and different models, a configured token
ConcBodies ==
  { [NoBody EXCEPT !.messages = [kind |-> "array", items |-> <<"m1">>],
                   !.stream = {TRUE}, !.model = m] :
      m \in { {"hermes-3"}, {"my-org/custom-model"} } }

ConcStatuses == {200, 429}

ConcContentTypes == {"application/json", "text/event-stream"}

ConcJsonBodies ==
  { [shape |-> "unparsable", text |-> <<>>],
    [shape |-> "text", text |-> <<"a">>],
    [shape |-> "text", text |-> <<"a", " ", "b", " ", "a">>] }

InitConc == Init /\ server = "proxy" /\ HF_TOKEN

StepConc(r) ==
  \/ ProxyReceiveFrom(r, ConcBodies)
  \/ UpstreamTake(r)
  \/ FetchThrow(r)
  \/ FetchRespondFrom(r, ConcStatuses, ConcContentTypes)
  \/ ReadText(r)
  \/ ReadJsonSimulatedFrom(r, ConcJsonBodies)
  \/ TimerFire(r)
  \/ SourceData(r)
  \/ SourceEnd(r)
  \/ SourceError(r)
  \/ ClientDisconnect(r)

\* each handler invocation is its own async call; the event loop runs
\* whichever has a step ready
NextConc == \E r \in Reqs : StepConc(r)

SpecConc == InitConc /\ [][NextConc]_vars

\* ------------------------------------------------------------------ claims
\* helpers of the formulas below
Records(r) == res[r].records

HasReq(r) == req[r].messages.kind # "none"

IsTerminal(rec) == rec.kind = "chunk" /\ rec.finish # "null"

\* concatenation, in order, of delta.content over the chunks of recs that are
\* not terminal
RECURSIVE DeltaConcat(_)
DeltaConcat(recs) ==
  IF recs = <<>> THEN <<>>
  ELSE LET h == Head(recs)
       IN (IF h.kind = "chunk" /\ ~IsTerminal(h) /\ h.hasContent THEN h.content ELSE <<>>)
          \o DeltaConcat(Tail(recs))

Count(recs, P(_)) == Cardinality({i \in 1..Len(recs) : P(recs[i])})

IsDone(rec) == rec.kind = "done"

IsStop(rec) == rec.kind = "chunk" /\ rec.finish = "stop"

IsError(rec) == rec.kind = "chunk" /\ rec.finish = "error"

IsRaw(rec) == rec.kind = "raw"

\* a simulated stream that ran to its end without a fault
SimulatedComplete(r) ==
  mode[r] = "simulated" /\ pc[r] = "done" /\ fault[r] = NoFault

\* C1: simulated-mode round trip: for a streaming request answered by a 2xx
\* JSON body with non-empty text T, the deltas of the non-terminal chunks,
\* concatenated in emission order, are T.
C1_RoundTrip ==
  \A r \in Reqs :
    (SimulatedComplete(r) /\ answer[r] \in Texts)
      => DeltaConcat(Records(r)) = answer[r]

\* C2: a simulated answer of n words yields n content chunks (first word
\* bare, later words prefixed by one space), then one terminal chunk with
\* empty delta and finish_reason "stop", then [DONE].
C2_ChunkPerWord ==
  \A r \in Reqs :
    (SimulatedComplete(r) /\ answer[r] \in Texts) =>
      LET ws == Split(answer[r])
          n == Len(ws)
          recs == Records(r)
      IN /\ Len(recs) = n + 2
         /\ \A i \in 1..n :
              /\ recs[i].kind = "chunk"
              /\ recs[i].hasContent
              /\ recs[i].finish = "null"
              /\ recs[i].content = IF i = 1 THEN ws[1] ELSE <<" ">> \o ws[i]
         /\ IsStop(recs[n + 1])
         /\ ~recs[n + 1].hasContent
         /\ IsDone(recs[n + 2])

\* C3: every simulated stream, completed or faulted, holds exactly one chunk
\* with finish_reason set, that chunk is the last chunk record, exactly one
\* [DONE] follows it and nothing follows [DONE]; never a "stop" chunk and an
\* "error" chunk in the same stream.
C3_OneTerminalChunk ==
  \A r \in Reqs :
    mode[r] = "simulated" =>
      LET recs == Records(r)
          n == Len(recs)
      IN /\ Count(recs, IsTerminal) <= 1
         /\ ~(Count(recs, IsStop) > 0 /\ Count(recs, IsError) > 0)
         /\ pc[r] = "done" =>
              /\ n >= 2
              /\ IsDone(recs[n])
              /\ IsTerminal(recs[n - 1])
              /\ Count(recs, IsTerminal) = 1
              /\ Count(recs, IsDone) = 1
              /\ res[r].ended
              /\ res[r].lateWrites = 0

\* the client has the terminator: written by the adapter, or relayed from the
\* provider
IsTerminator(rec) == IsDone(rec) \/ (IsRaw(rec) /\ rec.content = <<"[DONE]">>)

\* C4 as stated: once a streamed response has begun, in either mode, the
\* connection is closed only after the client has received [DONE].
C4_TerminatorEitherMode ==
  \A r \in Reqs :
    (mode[r] # "none" /\ res[r].ended) => Count(Records(r), IsTerminator) > 0

\* C4 (amended): once a simulated-mode streamed response has begun, however it
\* ends (normal completion or emission fault), [DONE] is the last record
\* written before the connection is closed.
C4_TerminatorSimulated ==
  \A r \in Reqs :
    (mode[r] = "simulated" /\ res[r].ended) =>
      /\ Len(Records(r)) > 0
      /\ IsDone(Records(r)[Len(Records(r))])

C4_Witness ==
  \E r \in Reqs :
    /\ mode[r] = "simulated" /\ res[r].ended /\ fault[r] = WriteFailed
    /\ Count(Records(r), IsDone) = 1

\* the bytes relayed to the client, in order
RelayedBytes(r) == [i \in 1..Len(Records(r)) |-> Records(r)[i].content[1]]

IsPrefix(s, t) == Len(s) <= Len(t) /\ s = SubSeq(t, 1, Len(s))

\* C5: pass-through relay: the bytes written to the client are at every
\* moment a prefix of the bytes received from the upstream source, unmodified
\* and in order; when the source ends the client has the whole byte sequence
\* and the connection is closed; the adapter adds no chunk and no [DONE].
C5_PassThroughRelay ==
  \A r \in Reqs :
    mode[r] = "passthrough" =>
      /\ \A i \in 1..Len(Records(r)) : IsRaw(Records(r)[i])
      /\ IsPrefix(RelayedBytes(r), srcBytes[r])
      /\ src[r] = "open" => ~res[r].ended
      /\ src[r] = "ended" => (RelayedBytes(r) = srcBytes[r] /\ res[r].ended)

C5_Witness ==
  \E r \in Reqs :
    /\ mode[r] = "passthrough" /\ src[r] = "ended"
    /\ Len(srcBytes[r]) >= 2 /\ srcBytes[r][1] # srcBytes[r][2]
    /\ RelayedBytes(r) = srcBytes[r]

\* C6: pass-through source error: the connection is closed, the adapter has
\* written no error chunk and no [DONE], the bytes relayed before the error
\* are all the client has, and the upstream call was made once.
C6_SourceErrorClose ==
  \A r \in Reqs :
    src[r] = "errored" =>
      /\ res[r].ended
      /\ res[r].endCalls = 1
      /\ \A i \in 1..Len(Records(r)) : IsRaw(Records(r)[i])
      /\ RelayedBytes(r) = srcBytes[r]
      /\ res[r].lateWrites = 0
      /\ res[r].json.kind = "none"
      /\ upstreamCalls[r] = 1

C6_Witness ==
  \E r \in Reqs :
    /\ src[r] = "errored" /\ Len(srcBytes[r]) >= 1 /\ res[r].ended
    /\ RelayedBytes(r) = srcBytes[r]

\* the first k chunks of the simulated loop over ws
LoopChunks(ws, k, model) == [i \in 1..k |-> SimChunk(ws, i - 1, model)]

\* C7: a fault in simulated mode after k >= 0 chunks were written leaves the
\* record sequence: those k chunks, one chunk with the fault description as
\* delta.content and finish_reason "error", [DONE]; then the connection is
\* closed and no further chunk is emitted.
C7_FaultFallback ==
  \A r \in Reqs :
    (mode[r] = "simulated" /\ fault[r] # NoFault) =>
      /\ pc[r] = "done"
      /\ res[r].ended
      /\ \E k \in 0..Len(words[r]) :
           Records(r) = LoopChunks(words[r], k, selectedModel[r])
                          \o <<ErrorChunk(fault[r], selectedModel[r]), DoneRecord>>

C7_Witness ==
  \E r \in Reqs :
    /\ mode[r] = "simulated" /\ fault[r] = WriteFailed /\ pc[r] = "done"
    /\ Len(Records(r)) = 4
    /\ IsError(Records(r)[3])

\* C8: with no credential configured every request, whatever its messages,
\* model or stream flag, gets the 401 {error, details} reply and no upstream
\* call is made.
C8_Unauthorized ==
  \A r \in Reqs :
    (~HF_TOKEN /\ pc[r] # "idle") =>
      /\ pc[r] = "done"
      /\ res[r].status = 401
      /\ res[r].json.kind = "error"
      /\ res[r].json.status = {}
      /\ res[r].ended
      /\ Records(r) = <<>>
      /\ upstreamCalls[r] = 0
      /\ ~outbound[r].sent

C8_Witness ==
  \E r \in Reqs :
    /\ ~HF_TOKEN /\ pc[r] = "done" /\ res[r].status = 401
    /\ HasReq(r) /\ InvalidMessages(req[r].messages)
    /\ stream[r]

\* C9: every request whose messages field is missing, not a sequence or an
\* empty sequence gets the 400 InvalidRequest reply and no upstream call is
\* made.  Read here for the requests that pass the credential check: without
\* a credential the reply is the 401 of C8, which the claim does not allow
\* for either.
C9_InvalidRequest ==
  \A r \in Reqs :
    (HF_TOKEN /\ pc[r] # "idle" /\ HasReq(r) /\ InvalidMessages(req[r].messages)) =>
      /\ res[r].status = 400
      /\ res[r].json.kind = "error"
      /\ upstreamCalls[r] = 0

\* C10: a request causes at most one upstream call, whatever the outcome,
\* and exactly one when a credential is configured and its messages are valid.
C10_OneUpstreamCall ==
  \A r \in Reqs :
    /\ upstreamCalls[r] <= 1
    /\ (pc[r] # "idle" /\ upstreamCalls[r] = 0) =>
         (HasReq(r) /\ (~HF_TOKEN \/ InvalidMessages(req[r].messages)))
    /\ (pc[r] # "idle" /\ HasReq(r) /\ HF_TOKEN /\ ~InvalidMessages(req[r].messages)) =>
         upstreamCalls[r] = 1
    /\ (response[r].arrived \/ pc[r] \notin {"idle", "done"}) => upstreamCalls[r] = 1

C10_Witness ==
  \E r \in Reqs :
    /\ pc[r] = "done" /\ upstreamCalls[r] = 1
    /\ mode[r] = "simulated" /\ fault[r] # NoFault

\* C11: an upstream reply with non-2xx status S and raw body B, for stream=true
\* as well as stream=false, is answered with HTTP status S and the JSON body
\* {error, details: B, status: S}; no stream record is written.
C11_UpstreamFailureVerbatim ==
  \A r \in Reqs :
    (response[r].arrived /\ ~Ok(response[r].status)) =>
      /\ Records(r) = <<>>
      /\ mode[r] = "none"
      /\ response[r].rawRead =>
           /\ pc[r] = "done"
           /\ res[r].status = response[r].status
           /\ res[r].json.kind = "error"
           /\ res[r].json.details = response[r].raw
           /\ res[r].json.status = {response[r].status}
           /\ res[r].endCalls = 1

C11_Witness ==
  \E r \in Reqs :
    /\ response[r].status = 429 /\ response[r].rawRead
    /\ response[r].raw = "Too Many Requests"
    /\ stream[r] /\ server = "proxy"
    /\ res[r].status = 429 /\ res[r].json.details = "Too Many Requests"

\* C12: a valid stream=false request whose upstream call succeeds with any 2xx
\* status is answered with the upstream status and the upstream JSON body,
\* unchanged.
C12_ForwardUnchanged ==
  \A r \in Reqs :
    ( /\ pc[r] = "done" /\ ~stream[r]
      /\ response[r].arrived /\ Ok(response[r].status)
      /\ response[r].body.shape \notin {"none", "unparsable"} ) =>
      /\ res[r].json.kind = "data"
      /\ res[r].json.data = response[r].body
      /\ res[r].status = response[r].status

\* the payload of the proxy's fetch, with the body it was built from
ProxyPayloadInFlight(r) == server = "proxy" /\ pc[r] = "fetching" /\ outbound[r].sent

\* C13: alias resolution: a model that is a key of the alias table goes out as
\* the table's identifier; every other model string supplied, the empty
\* string included, goes out unchanged; the default is used only when model
\* is omitted.
C13_AliasResolution ==
  \A r \in Reqs :
    ProxyPayloadInFlight(r) =>
      LET given == req[r].model
      IN IF given = {} THEN outbound[r].model = {DEFAULT_MODEL}
         ELSE \A m \in given :
                IF m \in DOMAIN AVAILABLE_MODELS
                THEN outbound[r].model = {AVAILABLE_MODELS[m]}
                ELSE outbound[r].model = {m}

\* the payload of a fetch, with the body it was built from
PayloadInFlight(r) == pc[r] = "fetching" /\ outbound[r].sent

\* C20: the outbound payload always carries temperature and max_tokens: the
\* client's values when provided, 0.7 and 1000 when absent; top_p,
\* frequency_penalty and presence_penalty go out iff supplied with a truthy
\* value, and then unchanged; messages go out unchanged and in order.
C20_OutboundPayload ==
  \A r \in Reqs :
    PayloadInFlight(r) =>
      LET b == req[r]
          o == outbound[r]
      IN /\ o.temperature = IF b.temperature # {} THEN b.temperature ELSE {7}
         /\ o.max_tokens = IF b.max_tokens # {} THEN b.max_tokens ELSE {1000}
         /\ o.top_p = IF TruthyNum(b.top_p) THEN b.top_p ELSE {}
         /\ o.frequency_penalty =
              IF TruthyNum(b.frequency_penalty) THEN b.frequency_penalty ELSE {}
         /\ o.presence_penalty =
              IF TruthyNum(b.presence_penalty) THEN b.presence_penalty ELSE {}
         /\ o.messages = b.messages

\* the outer catch was reached before any stream started: fetch rejected, or a
\* non-streamed 2xx body could not be parsed
FaultBeforeStream(r) ==
  /\ pc[r] = "done"
  /\ mode[r] = "none"
  /\ \/ (upstreamCalls[r] = 1 /\ ~response[r].arrived)
     \/ (~stream[r] /\ Ok(response[r].status) /\ response[r].body.shape = "unparsable")

\* C18: a fault before any stream starts (fetch throws, or the 2xx body of a
\* stream=false request cannot be parsed) gives exactly one response, status
\* 500 with an {error, details} body, and no stream record; a fault while
\* reading or emitting the body of a streamed 2xx reply never shows as an HTTP
\* error status or JSON error body, and in simulated mode shows as the in-band
\* error chunk.
C18_FaultReporting ==
  \A r \in Reqs :
    /\ FaultBeforeStream(r) =>
         /\ res[r].status = 500
         /\ res[r].json.kind = "error"
         /\ res[r].json.status = {}
         /\ res[r].endCalls = 1
         /\ Records(r) = <<>>
    /\ mode[r] # "none" =>
         /\ res[r].status = 200
         /\ res[r].json.kind = "none"
         /\ (mode[r] = "simulated" /\ fault[r] # NoFault) =>
              Count(Records(r), IsError) = 1
         /\ fault[r] = NoFault => Count(Records(r), IsError) = 0

C18_Witness ==
  \E r \in Reqs :
    /\ server = "proxy" /\ FaultBeforeStream(r)
    /\ response[r].body.shape = "unparsable"
    /\ res[r].status = 500

SimulatedRunning(r) ==
  mode[r] = "simulated" /\ fault[r] = NoFault /\ pc[r] \in {"paused", "done"}

\* C16: simulated emission order and pacing: one chunk per word, in word order
\* (first word bare, later ones prefixed by a space); one suspension after
\* each non-final chunk, so n - 1 for n words (idx counts the suspensions that
\* have ended); the chunk at the last word position is the terminal one, with
\* empty delta and finish_reason "stop"; [DONE] and the close follow it with
\* no suspension in between.
C16_OrderAndPacing ==
  \A r \in Reqs :
    SimulatedRunning(r) =>
      LET ws == Split(answer[r])
          n == Len(ws)
          recs == Records(r)
          chunks == IF pc[r] = "done" THEN n ELSE idx[r] + 1
      IN /\ words[r] = ws
         /\ pc[r] = "paused" => (idx[r] < n - 1 /\ Len(recs) = chunks /\ ~res[r].ended)
         /\ pc[r] = "done" =>
              /\ idx[r] = n - 1
              /\ Len(recs) = n + 1
              /\ IsDone(recs[n + 1])
              /\ res[r].ended
         /\ \A i \in 1..chunks :
              /\ recs[i].kind = "chunk"
              /\ recs[i].seq = i - 1
              /\ recs[i].model = selectedModel[r]
              /\ i < n =>
                   /\ recs[i].hasContent
                   /\ recs[i].finish = "null"
                   /\ recs[i].content = IF i = 1 THEN ws[1] ELSE <<" ">> \o ws[i]
              /\ i = n =>
                   /\ ~recs[i].hasContent
                   /\ recs[i].finish = "stop"

C16_Witness ==
  \E r \in Reqs :
    /\ SimulatedRunning(r) /\ pc[r] = "done"
    /\ Len(words[r]) = 3 /\ idx[r] = 2
    /\ words[r][1] # words[r][2]
    /\ Len(Records(r)) = 4

\* C14: once the client connection is broken in the middle of a simulated
\* stream, the emitter writes no further chunk and starts no further pacing
\* suspension for that request.
C14_StopOnDisconnect ==
  \A r \in Reqs :
    mode[r] = "simulated" => (res[r].deadWrites = 0 /\ res[r].deadPauses = 0)

\* a chunk of the simulated loop (not the error chunk of the fallback)
IsLoopChunk(rec) == rec.kind = "chunk" /\ rec.seq >= 0

\* the stream is over: a terminal chunk, then [DONE] as the last record, and
\* the connection closed
Finished(r) ==
  /\ pc[r] = "done"
  /\ res[r].ended
  /\ Count(Records(r), IsTerminal) >= 1
  /\ IsDone(Records(r)[Len(Records(r))])

\* C17: simulated-mode termination: when timers fire, a suspended emitter
\* always reaches the state where the terminal chunk and [DONE] are written
\* and the connection is closed; and the loop never emits more chunks than the
\* text has words.
C17_Terminates ==
  /\ [](\A r \in Reqs :
          mode[r] = "simulated" => Count(Records(r), IsLoopChunk) <= Len(words[r]))
  /\ \A r \in Reqs : (pc[r] = "paused") ~> Finished(r)

C17_Witness ==
  \E r \in Reqs :
    /\ Finished(r) /\ mode[r] = "simulated" /\ fault[r] = NoFault
    /\ ~res[r].clientGone
    /\ Len(words[r]) >= 3
    /\ Count(Records(r), IsLoopChunk) = Len(words[r])

\* everything the handler invocation of request q holds or has written
PerRequest(q) ==
  <<pc[q], req[q], outbound[q], upstreamCalls[q], stream[q], selectedModel[q],
    response[q], mode[q], answer[q], words[q], idx[q], src[q], srcBytes[q],
    fault[q], res[q]>>

\* the records written to the client of r are those its own model, text,
\* loop position, fault and upstream bytes determine
OwnOutput(r) ==
  /\ \A i \in 1..Len(Records(r)) :
       Records(r)[i].kind = "chunk" => Records(r)[i].model = selectedModel[r]
  /\ mode[r] = "none" => Records(r) = <<>>
  /\ mode[r] = "passthrough" =>
       /\ \A i \in 1..Len(Records(r)) : IsRaw(Records(r)[i])
       /\ RelayedBytes(r) = srcBytes[r]
  /\ mode[r] = "simulated" =>
       /\ pc[r] = "readJson" => Records(r) = <<>>
       /\ pc[r] = "paused" =>
            Records(r) = LoopChunks(words[r], idx[r] + 1, selectedModel[r])
       /\ (pc[r] = "done" /\ fault[r] = NoFault) =>
            /\ words[r] = Split(answer[r])
            /\ Records(r) = LoopChunks(words[r], Len(words[r]), selectedModel[r])
                              \o <<DoneRecord>>
       /\ fault[r] # NoFault =>
            \E k \in 0..Len(words[r]) :
              Records(r) = LoopChunks(words[r], k, selectedModel[r])
                             \o <<ErrorChunk(fault[r], selectedModel[r]), DoneRecord>>

\* C15: concurrent requests are independent: with two requests in flight,
\* each client's records are those its own request determines (none of the
\* other's model, text or position), every step touches the state of one
\* request only, and while one emitter is suspended in its pacing delay the
\* other request, unless it is finished, has a step it can take.
C15_Independent ==
  /\ [](\A r \in Reqs : OwnOutput(r))
  /\ [](\A r \in Reqs, q \in Reqs :
          (r # q /\ pc[r] = "paused" /\ pc[q] # "done") => ENABLED StepConc(q))
  /\ [][\E r \in Reqs : \A q \in Reqs \ {r} : PerRequest(q)' = PerRequest(q)]_vars

C15_Witness ==
  /\ pc[1] = "paused" /\ idx[1] = 1
  /\ pc[2] = "paused" /\ idx[2] = 0
  /\ selectedModel[1] # selectedModel[2]
  /\ Len(Records(1)) = 2 /\ Len(Records(2)) = 1

====
